---- MODULE Spec2Model ----
(***************************************************************************)
(* A model of dashboard.py, the TfL analytics dashboard: the three cached  *)
(* fetches, the network summary and line filter, the station status map    *)
(* and the journey planner.  The script is re-run top to bottom on every   *)
(* user interaction; each section is modelled by a specification of its    *)
(* own over the variables it reads and writes, the other sections'         *)
(* variables standing still.                                               *)
(***************************************************************************)
EXTENDS Integers, Sequences, FiniteSets, TLC

VARIABLES
    pc,              \* position in the section being run
    df,              \* the line-status frame: a sequence of rows
    \* the three cached fetches
    now,             \* the clock, in seconds
    cache,           \* st.cache_data: per function, the stored entry
    last,            \* the last call of a fetch function and its outcome
    \* network summary and line filter
    disrupted_lines, selected_lines, status_filter, filtered_df,
    \* station status map
    lines_here,      \* the lines of the station of this iteration
    worst_status,    \* the Python variable worst_status
    color,           \* the Python variable color
    plotted,         \* this iteration added a CircleMarker
    \* journey planner
    stations_df, start_input, end_input, start_naptan, end_naptan,
    planner,         \* what the planner showed this turn
    requests,        \* journey requests issued this turn
    \* mode summary of one journey
    legs,            \* the legs of the journey walked so far
    mode_times,      \* the dict mode_times, in insertion order
    summary_shown    \* the "Mode summary" line was written

fetchVars == <<now, cache, last>>
viewVars == <<disrupted_lines, selected_lines, status_filter, filtered_df>>
mapVars == <<lines_here, worst_status, color, plotted>>
planVars == <<stations_df, start_input, end_input, start_naptan, end_naptan,
              planner, requests>>
legVars == <<legs, mode_times, summary_shown>>
vars == <<pc, df, fetchVars, viewVars, mapVars, planVars, legVars>>

\* ------------------------------------------------------------------ bounds
MaxRows == 3         \* rows of the line-status frame
MaxLines == 3        \* lines of one station
MaxStations == 3     \* rows of the station frame
MaxLegs == 3         \* legs of one journey
MaxTime == 800       \* the clock stops here
TickStep == 200      \* seconds between two turns

\* ------------------------------------------------------------ vocabulary
GoodService == "Good Service"
SevereDelays == "Severe Delays"
Statuses == {GoodService, "Minor Delays", SevereDelays, "Part Closure"}

\* A Python name that has not been assigned yet, and Python's None.
Unbound == "<unbound>"
None == "<None>"

TUBE_LINES == {"Bakerloo", "Central", "Circle", "District",
               "Hammersmith & City", "Jubilee", "Metropolitan",
               "Northern", "Piccadilly", "Victoria", "Waterloo & City"}

\* The line names the upstream answers are drawn from: two tube lines and
\* one line of another mode.
LineNames == {"Bakerloo", "Central", "DLR"}

SeqsUpTo(S, n) == UNION {[1..k -> S] : k \in 0..n}

Rows == [line_name : LineNames, status : Statuses]

\* The frames fetch_disruptions can return: one row per line of the answer,
\* in the answer's order, a line name appearing once.  The sections after
\* the fetch read the columns line_name and status only.
DfValues ==
    {d \in SeqsUpTo(Rows, MaxRows) :
        \A i, j \in 1..Len(d) : i # j => d[i].line_name # d[j].line_name}

StationLines == SeqsUpTo(LineNames, MaxLines)

\* The values the variables of a section hold while another section runs.
FetchIdle ==
    /\ now = 0
    /\ cache = <<>>
    /\ last = [fn |-> "none", hit |-> FALSE, resps |-> <<>>,
               result |-> [raised |-> FALSE, rows |-> <<>>, columns |-> {}]]
ViewIdle ==
    /\ disrupted_lines = {}
    /\ selected_lines = {}
    /\ status_filter = {}
    /\ filtered_df = <<>>
MapIdle ==
    /\ lines_here = <<>>
    /\ worst_status = Unbound
    /\ color = Unbound
    /\ plotted = FALSE
PlanIdle ==
    /\ stations_df = <<>>
    /\ start_input = None
    /\ end_input = None
    /\ start_naptan = Unbound
    /\ end_naptan = Unbound
    /\ planner = "idle"
    /\ requests = 0
LegIdle ==
    /\ legs = <<>>
    /\ mode_times = <<>>
    /\ summary_shown = FALSE

\* ------------------------------------------------------- station status map
\* df[df['line_name'] == line]
LineRow(d, line) == SelectSeq(d, LAMBDA r : r.line_name = line)

STATUS_COLOR ==
    [s \in {GoodService, "Minor Delays", SevereDelays, "Part Closure"} |->
        CASE s = GoodService -> "green"
          [] s = "Minor Delays" -> "orange"
          [] s = SevereDelays -> "red"
          [] s = "Part Closure" -> "darkred"]

\* STATUS_COLOR.get(worst_status, "gray")
ColorOf(s) == IF s \in DOMAIN STATUS_COLOR THEN STATUS_COLOR[s] ELSE "gray"

\* Mutants of StepStatus: every non-good status overrides, Severe Delays
\* included; the first non-good status is kept.
StepStatusNoSevereGuard(worst, line_status) ==
    IF line_status # GoodService THEN line_status ELSE worst

StepStatusFirstWins(worst, line_status) ==
    IF line_status = SevereDelays
       \/ (worst = GoodService /\ line_status # GoodService)
    THEN line_status ELSE worst

\* The body of the inner loop for a line that has a row.
StepStatus(worst, line_status) ==
    IF line_status = SevereDelays
       \/ (worst # SevereDelays /\ line_status # GoodService)
    THEN line_status ELSE worst

\* Mutant of ScanLines: a line without a row counts as "Unknown", as it
\* does in the popup text.
RECURSIVE ScanLinesUnknown(_, _, _, _)
ScanLinesUnknown(lines, d, i, worst) ==
    IF i > Len(lines) THEN worst
    ELSE LET line_row == LineRow(d, lines[i])
         IN  ScanLinesUnknown(lines, d, i + 1,
                 StepStatus(worst, IF line_row # <<>>
                                   THEN line_row[1].status ELSE "Unknown"))

\* The inner loop over lines_here, from the i-th line on.
RECURSIVE ScanLines(_, _, _, _)
ScanLines(lines, d, i, worst) ==
    IF i > Len(lines) THEN worst
    ELSE LET line_row == LineRow(d, lines[i])
         IN  ScanLines(lines, d, i + 1,
                 IF line_row # <<>>
                 THEN StepStatus(worst, line_row[1].status)
                 ELSE worst)

\* One iteration of the loop over stations_df.
MapStation(lines) ==
    /\ pc \in {"map", "mapped"}
    /\ lines_here' = lines
    /\ IF lines = <<>>
       THEN /\ plotted' = FALSE
            /\ UNCHANGED <<worst_status, color>>
       ELSE /\ worst_status' = ScanLines(lines, df, 1, GoodService)
            /\ color' = ColorOf(worst_status')
            /\ plotted' = TRUE
    /\ pc' = "mapped"
    /\ UNCHANGED <<df, fetchVars, viewVars, planVars, legVars>>

InitMap ==
    /\ pc = "map"
    /\ df \in DfValues
    /\ FetchIdle /\ ViewIdle /\ MapIdle /\ PlanIdle /\ LegIdle

NextMap == \E lines \in StationLines : MapStation(lines)

SpecMap == InitMap /\ [][NextMap]_vars

\* ------------------------------------------------------ the cached fetches
Fns == {"fetch_stations", "fetch_disruptions", "fetch_bus_disruptions"}

\* @st.cache_data(ttl=300)
TTL == 300

\* for mode in modes
modes == <<"tube">>

\* The JSON texts the upstream API can answer with.  A body is the text of
\* the answer: not JSON at all, the JSON null, an error object (a non-empty
\* object such as {"httpStatusCode": 500, "message": ...}), the empty
\* object {}, a list of line items, or an object holding "stopPoints".
NotJson == [kind |-> "invalid", items |-> <<>>]
JsonNull == [kind |-> "null", items |-> <<>>]
ErrorObject == [kind |-> "error_object", items |-> <<>>]
EmptyObject == [kind |-> "empty_object", items |-> <<>>]
JsonList(items) == [kind |-> "list", items |-> items]
StopsObject(stops) == [kind |-> "stops_object", items |-> stops]

\* Line items: a well-formed one, one with an empty "lineStatuses" and one
\* without "name".
LineItem ==
    [id |-> "bakerloo", has_name |-> TRUE, name |-> "Bakerloo",
     lineStatuses |-> <<[statusSeverityDescription |-> "Minor Delays",
                         reason |-> "Signal failure"]>>]
LineItemNoStatus == [LineItem EXCEPT !.lineStatuses = <<>>]
LineItemNoName == [LineItem EXCEPT !.has_name = FALSE]

\* Stop points: a metro station, a bus stop and a metro station without
\* coordinates.
MetroStop ==
    [stopType |-> "NaptanMetroStation", has_lat_lon |-> TRUE,
     naptanId |-> "940GZZLUBNK", commonName |-> "Bank",
     lines |-> <<"Central">>]
BusStop == [MetroStop EXCEPT !.stopType = "NaptanBusCoachStation"]
MetroStopNoCoords == [MetroStop EXCEPT !.has_lat_lon = FALSE]

ErrorBodies == {NotJson, JsonNull, ErrorObject, EmptyObject}
Bodies ==
    ErrorBodies
    \cup {JsonList(<<>>), JsonList(<<LineItem>>),
          JsonList(<<LineItemNoStatus>>), JsonList(<<LineItem, LineItemNoName>>)}
    \cup {StopsObject(<<>>), StopsObject(<<MetroStop>>),
          StopsObject(<<BusStop, MetroStopNoCoords>>)}

\* What requests.get can do: raise (no answer), answer 200 with any body, or
\* answer 500 with a body that is no data.
NoBody == [kind |-> "none", items |-> <<>>]
NetworkError == [raises |-> TRUE, status_code |-> 0, body |-> NoBody]
Responses ==
    {NetworkError}
    \cup [raises : {FALSE}, status_code : {200}, body : Bodies]
    \cup [raises : {FALSE}, status_code : {500}, body : ErrorBodies]

\* The outcomes of a call: a frame (its rows and its columns) or an
\* exception.
Frame(rows, columns) == [raised |-> FALSE, rows |-> rows, columns |-> columns]
Raised == [raised |-> TRUE, rows |-> <<>>, columns |-> {}]

\* pd.DataFrame(list of dicts): the columns are the keys of the dicts, and
\* there are none when the list is empty.
DataFrame(rows, columns) ==
    Frame(rows, IF rows = <<>> THEN {} ELSE columns)

LineColumns == {"line_id", "line_name", "status"}
BusColumns == {"route_name", "status", "reason"}
StationColumns == {"station_name", "lat", "lon", "naptanId", "lines"}

\* pd.DataFrame(columns=[...]) of the except branches.
EmptyLineFrame == Frame(<<>>, LineColumns)
EmptyBusFrame == Frame(<<>>, BusColumns)

\* Whether "for line in data" and the subscripts of its body raise: data is
\* None or a non-empty object (its keys are strings), or an item fails.
LineRows(items) ==
    [i \in 1..Len(items) |->
        [line_id |-> items[i].id, line_name |-> items[i].name,
         status |-> items[i].lineStatuses[1].statusSeverityDescription]]

\* The body of fetch_disruptions.
fetch_disruptions(resp) ==
    IF resp.raises THEN EmptyLineFrame
    ELSE CASE resp.body.kind \in {"invalid", "null", "error_object"}
                -> EmptyLineFrame
           [] resp.body.kind = "stops_object" -> EmptyLineFrame
           [] resp.body.kind = "empty_object" -> DataFrame(<<>>, LineColumns)
           [] resp.body.kind = "list" ->
                IF \A i \in 1..Len(resp.body.items) :
                       /\ resp.body.items[i].has_name
                       /\ resp.body.items[i].lineStatuses # <<>>
                THEN DataFrame(LineRows(resp.body.items), LineColumns)
                ELSE EmptyLineFrame

BusRows(items) ==
    [i \in 1..Len(items) |->
        LET line_statuses == items[i].lineStatuses
        IN  [route_name |-> items[i].name,
             status |-> IF line_statuses # <<>>
                        THEN line_statuses[1].statusSeverityDescription
                        ELSE GoodService,
             reason |-> IF line_statuses # <<>>
                        THEN line_statuses[1].reason ELSE ""]]

\* The body of fetch_bus_disruptions.
fetch_bus_disruptions(resp) ==
    IF resp.raises THEN EmptyBusFrame
    ELSE CASE resp.body.kind \in {"invalid", "null", "error_object"}
                -> EmptyBusFrame
           [] resp.body.kind = "stops_object" -> EmptyBusFrame
           [] resp.body.kind = "empty_object" -> DataFrame(<<>>, BusColumns)
           [] resp.body.kind = "list" ->
                IF \A i \in 1..Len(resp.body.items) : resp.body.items[i].has_name
                THEN DataFrame(BusRows(resp.body.items), BusColumns)
                ELSE EmptyBusFrame

\* The stations one answer adds: the metro stations that have coordinates
\* and an identifier.
StationRows(stops) ==
    LET kept == SelectSeq(stops, LAMBDA stop :
                    /\ stop.stopType = "NaptanMetroStation"
                    /\ stop.has_lat_lon
                    /\ stop.naptanId # "")
    IN  [i \in 1..Len(kept) |->
            [station_name |-> kept[i].commonName,
             naptanId |-> kept[i].naptanId,
             lines |-> kept[i].lines]]

\* The loop of fetch_stations from the i-th mode on; resps[i] is what
\* requests.get does for that mode.
RECURSIVE StationsLoop(_, _, _)
StationsLoop(resps, i, stations) ==
    IF i > Len(modes) THEN DataFrame(stations, StationColumns)
    ELSE LET resp == resps[i]
         IN  IF resp.raises THEN Raised
             ELSE IF resp.status_code # 200
                  THEN StationsLoop(resps, i + 1, stations)
             ELSE CASE resp.body.kind \in {"invalid", "null", "list"} -> Raised
                    [] resp.body.kind \in {"error_object", "empty_object"}
                         -> StationsLoop(resps, i + 1, stations)
                    [] resp.body.kind = "stops_object"
                         -> StationsLoop(resps, i + 1,
                                stations \o StationRows(resp.body.items))

\* The body of fetch_stations.
fetch_stations(resps) == StationsLoop(resps, 1, <<>>)

\* st.cache_data: an entry younger than the time-to-live answers the call;
\* otherwise the function runs, and what it returns is stored.  An exception
\* is raised to the caller and nothing is stored.
Fresh(fn) == fn \in DOMAIN cache /\ now - cache[fn].stored_at < TTL

CacheHit(fn) ==
    /\ Fresh(fn)
    /\ last' = [fn |-> fn, hit |-> TRUE, resps |-> <<>>,
                result |-> cache[fn].result]
    /\ UNCHANGED cache

CacheMiss(fn, resps, result) ==
    /\ ~Fresh(fn)
    /\ last' = [fn |-> fn, hit |-> FALSE, resps |-> resps, result |-> result]
    /\ cache' = IF result.raised THEN cache
                ELSE [f \in DOMAIN cache \cup {fn} |->
                        IF f = fn
                        THEN [result |-> result, stored_at |-> now]
                        ELSE cache[f]]

\* stations_df = fetch_stations(API_KEY)
FetchStations ==
    /\ pc = "fetch"
    /\ \/ CacheHit("fetch_stations")
       \/ \E resps \in [1..Len(modes) -> Responses] :
             CacheMiss("fetch_stations", resps, fetch_stations(resps))
    /\ UNCHANGED <<pc, df, now, viewVars, mapVars, planVars, legVars>>

\* df = fetch_disruptions()
FetchDisruptions ==
    /\ pc = "fetch"
    /\ \/ CacheHit("fetch_disruptions")
       \/ \E resp \in Responses :
             CacheMiss("fetch_disruptions", <<resp>>, fetch_disruptions(resp))
    /\ UNCHANGED <<pc, df, now, viewVars, mapVars, planVars, legVars>>

\* bus_disruptions_df = fetch_bus_disruptions(API_KEY)
FetchBusDisruptions ==
    /\ pc = "fetch"
    /\ \/ CacheHit("fetch_bus_disruptions")
       \/ \E resp \in Responses :
             CacheMiss("fetch_bus_disruptions", <<resp>>,
                       fetch_bus_disruptions(resp))
    /\ UNCHANGED <<pc, df, now, viewVars, mapVars, planVars, legVars>>

\* Time passes between two runs of the script.
Tick ==
    /\ pc = "fetch"
    /\ now + TickStep <= MaxTime
    /\ now' = now + TickStep
    /\ UNCHANGED <<pc, df, cache, last, viewVars, mapVars, planVars, legVars>>

InitFetch ==
    /\ pc = "fetch"
    /\ df = <<>>
    /\ FetchIdle /\ ViewIdle /\ MapIdle /\ PlanIdle /\ LegIdle

NextFetch == FetchStations \/ FetchDisruptions \/ FetchBusDisruptions \/ Tick

SpecFetch == InitFetch /\ [][NextFetch]_vars

\* ------------------------------------------- network summary and line filter
\* Mutant of TubeDf: the frame is not narrowed to the tube lines.
TubeDfAllLines(d) == d

\* tube_df = df[df['line_name'].isin(TUBE_LINES)]
TubeDf(d) == SelectSeq(d, LAMBDA r : r.line_name \in TUBE_LINES)

\* set(tube_df[tube_df['status'] != "Good Service"]["line_name"])
DisruptedLines(d) ==
    LET tube_df == TubeDf(d)
        bad == SelectSeq(tube_df, LAMBDA r : r.status # GoodService)
    IN  {bad[i].line_name : i \in 1..Len(bad)}

\* sorted(df['line_name'].unique()) and df['status'].unique(): the options
\* of the two multiselects.
LineOptions(d) == {d[i].line_name : i \in 1..Len(d)}
StatusOptions(d) == {d[i].status : i \in 1..Len(d)}

\* Mutant of FilterRows: no selected status means every status.
FilterRowsEmptyMeansAll(d, sel_lines, sel_statuses) ==
    SelectSeq(d, LAMBDA r :
        /\ (IF sel_lines # {} THEN r.line_name \in sel_lines ELSE TRUE)
        /\ (IF sel_statuses # {} THEN r.status \in sel_statuses ELSE TRUE))

\* df[(df['line_name'].isin(selected_lines) if selected_lines else True)
\*    & (df['status'].isin(status_filter))]
FilterRows(d, sel_lines, sel_statuses) ==
    SelectSeq(d, LAMBDA r :
        /\ (IF sel_lines # {} THEN r.line_name \in sel_lines ELSE TRUE)
        /\ r.status \in sel_statuses)

\* The network summary: the set of disrupted tube lines.
Summary ==
    /\ pc = "summary"
    /\ disrupted_lines' = DisruptedLines(df)
    /\ pc' = "filters"
    /\ UNCHANGED <<df, selected_lines, status_filter, filtered_df,
                   fetchVars, mapVars, planVars, legVars>>

\* The two multiselects and the filter applied to the frame.
Filter(sel_lines, sel_statuses) ==
    /\ pc = "filters"
    /\ selected_lines' = sel_lines
    /\ status_filter' = sel_statuses
    /\ filtered_df' = FilterRows(df, sel_lines, sel_statuses)
    /\ pc' = "filtered"
    /\ UNCHANGED <<df, disrupted_lines, fetchVars, mapVars, planVars, legVars>>

\* A widget changed: the script runs again with the frame of the cache.
RerunView ==
    /\ pc = "filtered"
    /\ pc' = "summary"
    /\ UNCHANGED <<df, viewVars, fetchVars, mapVars, planVars, legVars>>

InitView ==
    /\ pc = "summary"
    /\ df \in DfValues
    /\ FetchIdle /\ ViewIdle /\ MapIdle /\ PlanIdle /\ LegIdle

NextView ==
    \/ Summary
    \/ \E sel_lines \in SUBSET LineOptions(df),
          sel_statuses \in SUBSET StatusOptions(df) :
            Filter(sel_lines, sel_statuses)
    \/ RerunView

SpecView == InitView /\ [][NextView]_vars

\* ---------------------------------------------------------- journey planner
StationNames == {"Bank", "BANK", "Oval"}
NaptanIds == {"940GZZLUBNK", "940GZZLUOVL"}

\* str.lower()
Lower(name) ==
    CASE name = "Bank" -> "bank"
      [] name = "BANK" -> "bank"
      [] name = "Oval" -> "oval"
      [] OTHER -> name

\* The station frames the planner reads: the columns station_name and
\* naptanId of what fetch_stations returned.
StationFrames ==
    SeqsUpTo([station_name : StationNames, naptanId : NaptanIds], MaxStations)

\* The options of the two select boxes.
station_names(d) == {d[i].station_name : i \in 1..Len(d)}

\* st.selectbox: one of the options, None when there are none.
Selectable(d) == IF station_names(d) = {} THEN {None} ELSE station_names(d)

get_naptan(d, station_name) ==
    LET match == SelectSeq(d, LAMBDA r :
                     Lower(r.station_name) = Lower(station_name))
    IN  IF match # <<>> THEN match[1].naptanId ELSE None

\* Mutant of JourneyBranch: the request is issued whatever the identifiers.
JourneyBranchAlwaysRequest(start, end) == "request"

\* if start_naptan == end_naptan: ... else: ...
JourneyBranch(start, end) ==
    IF start = end THEN "same_station" ELSE "request"

\* The planner up to the journey request: both selections resolved, then
\* the information message or requests.get on the journey URL.
PlanJourney(start, end) ==
    /\ pc = "plan"
    /\ start_input' = start
    /\ end_input' = end
    /\ IF start # None /\ end # None
       THEN /\ start_naptan' = get_naptan(stations_df, start)
            /\ end_naptan' = get_naptan(stations_df, end)
            /\ IF JourneyBranch(start_naptan', end_naptan') = "same_station"
               THEN /\ planner' = "same_station"
                    /\ requests' = 0
                    /\ pc' = "done"
               ELSE /\ planner' = "requested"
                    /\ requests' = requests + 1
                    /\ pc' = "awaiting"
       ELSE /\ planner' = "none"
            /\ pc' = "done"
            /\ UNCHANGED <<start_naptan, end_naptan, requests>>
    /\ UNCHANGED <<df, stations_df, fetchVars, viewVars, mapVars, legVars>>

\* What the journey request comes back with: an exception, a status other
\* than 200, no journeys, or journeys.
JourneyOutcomes == {"request_failed", "api_error", "no_journeys", "journeys"}

JourneyAnswer(outcome) ==
    /\ pc = "awaiting"
    /\ planner' = outcome
    /\ pc' = "done"
    /\ UNCHANGED <<df, stations_df, start_input, end_input, start_naptan,
                   end_naptan, requests, fetchVars, viewVars, mapVars,
                   legVars>>

\* A widget changed: the script runs again from the top.
RerunPlan ==
    /\ pc = "done"
    /\ pc' = "plan"
    /\ start_input' = None
    /\ end_input' = None
    /\ start_naptan' = Unbound
    /\ end_naptan' = Unbound
    /\ planner' = "idle"
    /\ requests' = 0
    /\ UNCHANGED <<df, stations_df, fetchVars, viewVars, mapVars, legVars>>

InitPlan ==
    /\ pc = "plan"
    /\ df = <<>>
    /\ FetchIdle /\ ViewIdle /\ MapIdle /\ LegIdle
    /\ stations_df \in StationFrames
    /\ start_input = None
    /\ end_input = None
    /\ start_naptan = Unbound
    /\ end_naptan = Unbound
    /\ planner = "idle"
    /\ requests = 0

NextPlan ==
    \/ \E start \in Selectable(stations_df), end \in Selectable(stations_df) :
          PlanJourney(start, end)
    \/ \E outcome \in JourneyOutcomes : JourneyAnswer(outcome)
    \/ RerunPlan

SpecPlan == InitPlan /\ [][NextPlan]_vars

\* ---------------------------------------------- mode summary of one journey
\* leg["mode"]["name"] as the API gives it, and str.capitalize().
RawModes == {"bus", "walking"}
Capitalize(mode) ==
    CASE mode = "bus" -> "Bus"
      [] mode = "walking" -> "Walking"
      [] OTHER -> mode

\* A timestamp: datetime.fromisoformat parses it to a number of seconds, or
\* raises.
Parsed(t) == [ok |-> TRUE, t |-> t]
Unparsable == [ok |-> FALSE, t |-> 0]
DepartureTimes == {Parsed(0), Parsed(600), Unparsable}
ArrivalTimes == {Parsed(90), Parsed(300), Parsed(600), Parsed(1500), Unparsable}

Legs == [mode : RawModes, departureTime : DepartureTimes,
         arrivalTime : ArrivalTimes]

\* A dict in insertion order: a sequence of key and value.
DictKeys(d) == {d[i].k : i \in 1..Len(d)}
DictGet(d, k, default) ==
    IF k \in DictKeys(d)
    THEN d[CHOOSE i \in 1..Len(d) : d[i].k = k].v
    ELSE default
DictSet(d, k, v) ==
    IF k \in DictKeys(d)
    THEN [i \in 1..Len(d) |-> IF d[i].k = k THEN [k |-> k, v |-> v] ELSE d[i]]
    ELSE Append(d, [k |-> k, v |-> v])

\* int(x / 60): the quotient cut towards zero.
IntDiv(a, b) == IF a >= 0 THEN a \div b ELSE -((-a) \div b)

\* minutes = int((arr_dt - dep_dt).total_seconds() / 60)
LegMinutes(dep, arr) == IntDiv(arr.t - dep.t, 60)

\* Mutant of AddMinutes: the leg's minutes replace the mode's total.
AddMinutesOverwrite(d, mode, minutes) == DictSet(d, mode, minutes)

\* mode_times[mode] = mode_times.get(mode, 0) + minutes
AddMinutes(d, mode, minutes) ==
    DictSet(d, mode, DictGet(d, mode, 0) + minutes)

\* The body of the loop over journey["legs"] for one leg.
ProcessLeg(leg) ==
    /\ pc = "legs"
    /\ Len(legs) < MaxLegs
    /\ legs' = Append(legs, leg)
    /\ mode_times' =
          IF leg.departureTime.ok /\ leg.arrivalTime.ok
          THEN AddMinutes(mode_times, Capitalize(leg.mode),
                          LegMinutes(leg.departureTime, leg.arrivalTime))
          ELSE mode_times
    /\ UNCHANGED <<pc, df, summary_shown, fetchVars, viewVars, mapVars,
                   planVars>>

\* After the last leg: the summary line, written when it is not empty.
Summarise ==
    /\ pc = "legs"
    /\ summary_shown' = (mode_times # <<>>)
    /\ pc' = "summarised"
    /\ UNCHANGED <<df, legs, mode_times, fetchVars, viewVars, mapVars,
                   planVars>>

\* The next journey of the answer: mode_times = {}.
NextJourney ==
    /\ pc = "summarised"
    /\ legs' = <<>>
    /\ mode_times' = <<>>
    /\ summary_shown' = FALSE
    /\ pc' = "legs"
    /\ UNCHANGED <<df, fetchVars, viewVars, mapVars, planVars>>

InitLegs ==
    /\ pc = "legs"
    /\ df = <<>>
    /\ FetchIdle /\ ViewIdle /\ MapIdle /\ PlanIdle /\ LegIdle

NextLegs ==
    \/ \E leg \in Legs : ProcessLeg(leg)
    \/ Summarise
    \/ NextJourney

SpecLegs == InitLegs /\ [][NextLegs]_vars

\* ------------------------------------------------- claims: station status map
\* The positions of lines whose line has a row in d.
Present(lines, d) == {i \in 1..Len(lines) : LineRow(d, lines[i]) # <<>>}

\* The current status of the line at position i (i in Present).
StatusAt(lines, d, i) == LineRow(d, lines[i])[1].status

NonGood(lines, d) ==
    {i \in Present(lines, d) : StatusAt(lines, d, i) # GoodService}

HasSevere(lines, d) ==
    \E i \in Present(lines, d) : StatusAt(lines, d, i) = SevereDelays

Min(S) == CHOOSE x \in S : \A y \in S : x <= y
Max(S) == CHOOSE x \in S : \A y \in S : x >= y

\* C1: a station one of whose lines has the current status "Severe Delays"
\* gets the worst status "Severe Delays", whatever the other lines' statuses
\* and the order of the lines.
C1_SevereWins ==
    (pc = "mapped" /\ HasSevere(lines_here, df))
        => (plotted /\ worst_status = SevereDelays)

\* C1 witness: a Severe Delays line is followed by a line with another
\* non-good status, and the station is plotted as Severe Delays.
C1_Witness ==
    /\ pc = "mapped"
    /\ Len(lines_here) = 3
    /\ 1 \in NonGood(lines_here, df) /\ 3 \in NonGood(lines_here, df)
    /\ StatusAt(lines_here, df, 1) = SevereDelays
    /\ StatusAt(lines_here, df, 3) = "Part Closure"
    /\ worst_status = SevereDelays

\* C2 as stated: with no Severe Delays line, the worst status is the status
\* of the first line, in the station's order, whose status is not Good
\* Service.
C2_FirstNonGood ==
    (pc = "mapped" /\ ~HasSevere(lines_here, df)
                   /\ NonGood(lines_here, df) # {})
        => worst_status =
               StatusAt(lines_here, df, Min(NonGood(lines_here, df)))

\* C2 amended: with no Severe Delays line, the worst status is the status of
\* the last line, in the station's order, whose status is not Good Service.
C2_LastNonGood ==
    (pc = "mapped" /\ ~HasSevere(lines_here, df)
                   /\ NonGood(lines_here, df) # {})
        => worst_status =
               StatusAt(lines_here, df, Max(NonGood(lines_here, df)))

\* C2 witness: two lines with different non-good statuses, neither Severe
\* Delays; the station carries the later one.
C2_Witness ==
    /\ pc = "mapped"
    /\ ~HasSevere(lines_here, df)
    /\ Cardinality(NonGood(lines_here, df)) >= 2
    /\ StatusAt(lines_here, df, Min(NonGood(lines_here, df)))
         # StatusAt(lines_here, df, Max(NonGood(lines_here, df)))
    /\ worst_status = StatusAt(lines_here, df, Max(NonGood(lines_here, df)))

Observed(lines, d) == {StatusAt(lines, d, i) : i \in Present(lines, d)}

\* C3 as stated: after a station's iteration the worst status is a status
\* observed among the station's lines or Good Service, and it is Good
\* Service when the station has no lines or none of them has a row.
C3_ObservedOrGood ==
    pc = "mapped" =>
        /\ worst_status \in Observed(lines_here, df) \cup {GoodService}
        /\ Present(lines_here, df) = {} => worst_status = GoodService

\* C3 amended: a station with at least one line is plotted with a worst
\* status that is observed among its lines or is Good Service, and is Good
\* Service when none of its lines has a row; a station with no lines is
\* skipped: nothing is plotted and no worst status is computed for it.
C3_ObservedOrGoodUnlessSkipped ==
    pc = "mapped" =>
        /\ lines_here # <<>> =>
              /\ plotted
              /\ worst_status \in Observed(lines_here, df) \cup {GoodService}
              /\ Present(lines_here, df) = {} => worst_status = GoodService
        /\ lines_here = <<>> => ~plotted

\* C3 witness: a station with lines none of which has a row is plotted as
\* Good Service while the frame holds a disrupted line.
C3_Witness ==
    /\ pc = "mapped"
    /\ Len(lines_here) >= 2
    /\ Present(lines_here, df) = {}
    /\ \E i \in 1..Len(df) : df[i].status # GoodService
    /\ plotted
    /\ worst_status = GoodService

\* ------------------------------------ claims: network summary and line filter
\* The statuses the rows of d give the line n.
StatusOf(d, n) == {d[i].status : i \in {j \in 1..Len(d) : d[j].line_name = n}}

\* C4: the set of disrupted lines is exactly the set of tube lines whose
\* current status is not Good Service: it lies within TUBE_LINES, holds no
\* line whose status is Good Service and holds every tube line that has
\* another status.
C4_DisruptedExact ==
    pc # "summary" =>
        /\ disrupted_lines \subseteq TUBE_LINES
        /\ \A n \in disrupted_lines : GoodService \notin StatusOf(df, n)
        /\ \A n \in TUBE_LINES :
              (StatusOf(df, n) # {} /\ GoodService \notin StatusOf(df, n))
                  => n \in disrupted_lines

\* C4 witness: one tube line is disrupted, one runs a Good Service and a
\* disrupted line of another mode is left out.
C4_Witness ==
    /\ pc = "filters"
    /\ StatusOf(df, "Bakerloo") = {SevereDelays}
    /\ StatusOf(df, "Central") = {GoodService}
    /\ StatusOf(df, "DLR") = {"Minor Delays"}
    /\ disrupted_lines = {"Bakerloo"}

\* The rows of d the filter is to keep.
Kept(d, sel_lines, sel_statuses) ==
    {i \in 1..Len(d) :
        /\ (sel_lines = {} \/ d[i].line_name \in sel_lines)
        /\ d[i].status \in sel_statuses}

\* C5: the filtered frame holds exactly the rows whose line is selected
\* (every row when no line is selected) and whose status is selected; with no
\* status selected it is empty, also when no line is selected.
C5_FilterExact ==
    pc = "filtered" =>
        /\ {filtered_df[i] : i \in 1..Len(filtered_df)}
             = {df[i] : i \in Kept(df, selected_lines, status_filter)}
        /\ Len(filtered_df)
             = Cardinality(Kept(df, selected_lines, status_filter))
        /\ status_filter = {} => filtered_df = <<>>

\* C5 witness: no line and no status is selected over a frame of three rows,
\* and the filtered frame is empty.
C5_Witness ==
    /\ pc = "filtered"
    /\ Len(df) = 3
    /\ selected_lines = {}
    /\ status_filter = {}
    /\ filtered_df = <<>>

\* --------------------------------------------------- claims: the cached fetches
\* The upstream call failed: no answer, a non-success answer, or a payload
\* that is not a list of named line items.
UpstreamFailed(resp) ==
    \/ resp.raises
    \/ resp.status_code # 200
    \/ resp.body.kind # "list"
    \/ \E i \in 1..Len(resp.body.items) : ~resp.body.items[i].has_name

ExpectedColumns(fn) ==
    IF fn = "fetch_disruptions" THEN LineColumns ELSE BusColumns

\* C7: when the upstream call of fetch_disruptions or fetch_bus_disruptions
\* fails, the function raises nothing and returns an empty frame that has the
\* expected columns.
C7_FailureGivesEmptyFrame ==
    (/\ last.fn \in {"fetch_disruptions", "fetch_bus_disruptions"}
     /\ ~last.hit
     /\ UpstreamFailed(last.resps[1]))
        => /\ ~last.result.raised
           /\ last.result.rows = <<>>
           /\ last.result.columns = ExpectedColumns(last.fn)

\* C8: a failing call for a mode never leaves fetch_stations as an
\* exception, and when every mode fails the frame has no stations.
C8_StationsNeverRaise ==
    (last.fn = "fetch_stations" /\ ~last.hit)
        => /\ ~last.result.raised
           /\ (\A i \in 1..Len(last.resps) :
                   last.resps[i].raises \/ last.resps[i].status_code # 200
                   \/ last.resps[i].body.kind # "stops_object")
                => last.result.rows = <<>>

\* C9: a call answered by the cache makes no upstream call, a call not
\* answered by it makes one, and what the cache answers with is never the
\* frame an except branch put in the place of a failed upstream call.
C9_HitIsSuccessfulResult ==
    /\ last.hit => last.resps = <<>>
    /\ (last.fn # "none" /\ ~last.hit) => last.resps # <<>>
    /\ last.hit => last.result \notin {EmptyLineFrame, EmptyBusFrame}

\* ----------------------------------------------------- claims: journey planner
\* The identifier a selected name resolves to: that of the first station
\* whose name is the selected one, letter case apart.
Resolved(d, name) ==
    LET hits == {i \in 1..Len(d) : Lower(d[i].station_name) = Lower(name)}
    IN  IF hits = {} THEN None ELSE d[Min(hits)].naptanId

\* C10: when the selected start and end stations resolve to the same
\* identifier the planner shows "same station" and issues no journey request
\* in that turn; a request is issued only when the identifiers differ.
C10_SameStationNoRequest ==
    (pc \in {"awaiting", "done"} /\ start_input # None /\ end_input # None)
        => LET s == Resolved(stations_df, start_input)
               e == Resolved(stations_df, end_input)
           IN  /\ s = e => (planner = "same_station" /\ requests = 0)
               /\ requests > 0 => s # e

\* C10 witness: two different selected names resolve to one identifier, and
\* the planner shows "same station" without a request.
C10_Witness ==
    /\ pc = "done"
    /\ start_input # None /\ end_input # None
    /\ start_input # end_input
    /\ Resolved(stations_df, start_input) = Resolved(stations_df, end_input)
    /\ planner = "same_station"
    /\ requests = 0

\* ------------------------------------------------------- claims: mode summary
\* The minutes the legs from the i-th on add to the mode m: a leg of another
\* mode or with a timestamp that cannot be parsed adds none.
RECURSIVE SumMinutes(_, _, _)
SumMinutes(ls, m, i) ==
    IF i > Len(ls) THEN 0
    ELSE (IF /\ Capitalize(ls[i].mode) = m
             /\ ls[i].departureTime.ok
             /\ ls[i].arrivalTime.ok
          THEN IntDiv(ls[i].arrivalTime.t - ls[i].departureTime.t, 60)
          ELSE 0)
         + SumMinutes(ls, m, i + 1)

\* C6: after any number of legs the total of each mode is the sum of the
\* minutes of the legs of that mode, a leg whose departure or arrival cannot
\* be parsed adding nothing and stopping nothing; a mode is listed once.
C6_ModeTotals ==
    /\ \A m \in {Capitalize(r) : r \in RawModes} :
          DictGet(mode_times, m, 0) = SumMinutes(legs, m, 1)
    /\ \A i, j \in 1..Len(mode_times) :
          mode_times[i].k = mode_times[j].k => i = j

\* C6 witness: Bus legs of 10 and 15 minutes and a Walking leg of 5 minutes
\* give Bus 25 and Walking 5.
C6_Witness ==
    /\ pc = "summarised"
    /\ legs = <<[mode |-> "bus", departureTime |-> Parsed(0),
                 arrivalTime |-> Parsed(600)],
                [mode |-> "bus", departureTime |-> Parsed(600),
                 arrivalTime |-> Parsed(1500)],
                [mode |-> "walking", departureTime |-> Parsed(0),
                 arrivalTime |-> Parsed(300)]>>
    /\ mode_times = <<[k |-> "Bus", v |-> 25], [k |-> "Walking", v |-> 5]>>
    /\ summary_shown

====
